---- MODULE Spec2Model ----
(***************************************************************************)
(* Model of main.py of EnterTheForest: the story loader (load_story), the  *)
(* parser of the generated reply (parse_scene_and_options_json), and the   *)
(* scene resolver / navigation (show_node, its worker thread and the       *)
(* callbacks it posts to the Tk event queue).                              *)
(*                                                                         *)
(* Representation.  A Python dict is a function whose DOMAIN is the set of *)
(* keys present.  Node identifiers are TLA+ strings.  Every other Python   *)
(* str (text, hint, label, scene) is a sequence of atoms, so that + is \o  *)
(* and strip() can be computed; the atom " " is whitespace.                *)
(***************************************************************************)
EXTENDS Integers, Sequences, FiniteSets, TLC

VARIABLES
    source,       \* the story file as found on disk (STORY_PATH)
    story,        \* build_ui's local `story` (the loaded graph)
    pc,           \* position of the foreground: build_ui / mainloop / exit / crashed
    status,       \* the status label: id of the node last resolved
    box,          \* the text shown in the scrolled text box
    btn1, btn2,   \* the two buttons: packed?, text, command
    threads,      \* the worker threads started by show_node, with the number
                  \* of their callbacks the main loop has run (history)
    after_queue,  \* callbacks posted with box.after(0, ...), not yet run
    messagebox,   \* the error dialogs shown so far
    exc,          \* last exception raised in the foreground
    last,         \* the step taken last (history)
    text,         \* the argument of a call of parse_scene_and_options_json
    parsed        \* the outcome of that call

vars == <<source, story, pc, status, box, btn1, btn2, threads, after_queue,
          messagebox, exc, last, text, parsed>>

----------------------------------------------------------------------------
(* Bounds of the model *)

\* longest authored `options` list
MaxOpts == 3
\* longest `next_map` list
MaxMap == 2
\* longest `options` list in a generated reply
MaxLabels == 3
\* number of generation requests one run may start
MaxReq == 2

----------------------------------------------------------------------------
(* Python helpers *)

None == "<None>"

\* k in d
Has(d, k) == k \in DOMAIN d

\* d.get(k, default)
Get(d, k, default) == IF k \in DOMAIN d THEN d[k] ELSE default

\* truth value of a str-or-None node reference
Truthy(s) == s # None /\ s # ""

Max(a, b) == IF a >= b THEN a ELSE b
Min(a, b) == IF a <= b THEN a ELSE b

\* s[:n]
Take(s, n) == SubSeq(s, 1, Min(n, Len(s)))

\* sequences over S of length lo..hi
SeqsOf(S, lo, hi) == UNION { [1..n -> S] : n \in lo..hi }

----------------------------------------------------------------------------
(* Story sources *)

\* Node identifiers: "start" and "b" can be keys of the story file, "x" never
\* is one, "" is the empty identifier.
\* Values are well typed where present: `text` is a str, `options` a list of
\* dicts with a `label`, `next_map` a list of str; of the type tests of lines
\* 34-37 and 59-63 only the missing `text` is exercised.

\* a dict with the given optional entries; each argument is <<>> (absent) or
\* <<value>> (present)
MkNode(t, o, h, n, m) ==
    [k \in (IF t # <<>> THEN {"text"} ELSE {}) \cup
           (IF o # <<>> THEN {"options"} ELSE {}) \cup
           (IF h # <<>> THEN {"next_hint"} ELSE {}) \cup
           (IF n # <<>> THEN {"next"} ELSE {}) \cup
           (IF m # <<>> THEN {"next_map"} ELSE {}) |->
        CASE k = "text" -> t[1]
          [] k = "options" -> o[1]
          [] k = "next_hint" -> h[1]
          [] k = "next" -> n[1]
          [] k = "next_map" -> m[1]]

\* an authored choice; `next` may be missing
MkOpt(l, n) ==
    [k \in {"label"} \cup (IF n # <<>> THEN {"next"} ELSE {}) |->
        CASE k = "label" -> l
          [] k = "next" -> n[1]]

Opts ==
    { MkOpt(<<"p">>, <<"b">>), MkOpt(<<"q">>, <<"start">>), MkOpt(<<"r">>, <<"x">>),
      MkOpt(<<"s">>, <<>>), MkOpt(<<"e">>, <<"">>) }

Maybe(S) == {<<>>} \cup { <<v>> : v \in S }

\* nodes with authored options: every options list, with some of the other keys
AuthoredNodes ==
    { MkNode(<< <<"T">> >>, <<o>>, h, n, m) :
        o \in SeqsOf(Opts, 1, MaxOpts),
        h \in Maybe({<<"hint">>}),
        n \in Maybe({"b", "x"}),
        m \in Maybe({<<"b">>, <<"x">>}) }

\* nodes without authored options: every combination of the other keys
OtherNodes ==
    { MkNode(<< <<"T">> >>, o, h, n, m) :
        o \in Maybe({<<>>}),
        h \in Maybe({<<>>, <<"hint">>}),
        n \in Maybe({"b", "start", "x", ""}),
        m \in Maybe(SeqsOf({"b", "start", "x"}, 0, MaxMap)) }

\* the nodes the file may hold under "start"
StartNodes == AuthoredNodes \cup OtherNodes

\* the nodes the file may hold under "b": terminal, authored, hinted
BNodes ==
    { MkNode(<< <<"U">> >>, <<>>, <<>>, <<>>, <<>>),
      MkNode(<< <<"U">> >>, << << MkOpt(<<"back">>, <<"start">>) >> >>, <<>>, <<>>, <<>>),
      MkNode(<< <<"U">> >>, <<>>, << <<"hint">> >>, <<"start">>, <<>>) }

\* a node without `text`
NoTextNode == MkNode(<<>>, <<>>, <<>>, <<>>, <<>>)

Stories ==
    { [id \in {"start", "b"} |-> IF id = "start" THEN s ELSE b] :
        s \in StartNodes, b \in BNodes }
    \cup { [id \in {"start", "b"} |-> IF id = "start" THEN s ELSE NoTextNode] : s \in BNodes }
    \cup { [id \in {"start"} |-> s] : s \in OtherNodes \cup BNodes }
    \cup { [id \in {"b"} |-> b] : b \in BNodes }

NoStory == [id \in {} |-> {}]

Sources ==
    { [kind |-> "object", story |-> s] : s \in Stories }
    \cup { [kind |-> k, story |-> NoStory] : k \in {"missing", "notjson", "notobject"} }

----------------------------------------------------------------------------
(* load_story *)

\* first loop: every node has a string `text`
TextError(st) == \E id \in DOMAIN st : ~Has(st[id], "text")

\* second loop: an option's `next`, when truthy, must be a key
OptionNextError(st) ==
    \E id \in DOMAIN st :
        LET opts == Get(st[id], "options", <<>>)
        IN  \E i \in 1..Len(opts) :
                LET nxt == Get(opts[i], "next", None)
                IN  Truthy(nxt) /\ nxt \notin DOMAIN st

\* RoutingError without the check of lines 52-56
RoutingError_route_unchecked(st, id) ==
    LET node == st[id]
        nm == Get(node, "next_map", <<>>)
        nxt == Get(node, "next", None)
    IN  IF Has(node, "next_map") /\ \E i \in 1..Len(nm) : nm[i] \notin DOMAIN st
        THEN "next_map_unknown"
        ELSE IF nxt # None /\ nxt \notin DOMAIN st
        THEN "next_unknown"
        ELSE ""

\* third loop, one node: the cause of the ValueError, or "" when the node passes
RoutingError(st, id) ==
    LET node == st[id]
        has_opts == Get(node, "options", <<>>) # <<>>
        has_hint == Get(node, "next_hint", <<>>) # <<>>
        nm == Get(node, "next_map", <<>>)
        nxt == Get(node, "next", None)
    IN  IF ~has_opts /\ has_hint /\ nm = <<>> /\ ~Truthy(nxt)
        THEN "no_route"
        ELSE IF Has(node, "next_map") /\ \E i \in 1..Len(nm) : nm[i] \notin DOMAIN st
        THEN "next_map_unknown"
        ELSE IF nxt # None /\ nxt \notin DOMAIN st
        THEN "next_unknown"
        ELSE ""

\* the result of load_story: the story, or the exception it raises
load_story(src) ==
    IF src.kind = "missing" THEN [ok |-> FALSE, error |-> "FileNotFoundError", story |-> NoStory]
    ELSE IF src.kind = "notjson" THEN [ok |-> FALSE, error |-> "not_json", story |-> NoStory]
    ELSE IF src.kind = "notobject" THEN [ok |-> FALSE, error |-> "not_object", story |-> NoStory]
    ELSE LET st == src.story
         IN  IF TextError(st) THEN [ok |-> FALSE, error |-> "text", story |-> NoStory]
             ELSE IF OptionNextError(st)
             THEN [ok |-> FALSE, error |-> "option_unknown", story |-> NoStory]
             ELSE IF \E id \in DOMAIN st : RoutingError(st, id) # ""
             THEN [ok |-> FALSE,
                   error |-> IF "start" \in DOMAIN st /\ RoutingError(st, "start") # ""
                             THEN RoutingError(st, "start") ELSE RoutingError(st, "b"),
                   story |-> NoStory]
             ELSE [ok |-> TRUE, error |-> "", story |-> st]

----------------------------------------------------------------------------
(* The generated reply: text as a sequence of tokens, Python values *)

\* a token of the reply text; a str token carries its characters
Tok(k) == [t |-> k, v |-> <<>>]
TStr(s) == [t |-> "str", v |-> s]
LB == Tok("{")
RB == Tok("}")
LS == Tok("[")
RS == Tok("]")
COMMA == Tok(",")
COLON == Tok(":")
INT == Tok("int")
NULL == Tok("null")
\* a run of characters that is no JSON token and holds no brace
NOISE == Tok("noise")

\* Python values
PyStr(s) == [t |-> "str", v |-> s]
PyInt == [t |-> "int", v |-> <<>>]
PyNone == [t |-> "None", v |-> <<>>]
PyList(l) == [t |-> "list", v |-> l]
PyDict(d) == [t |-> "dict", v |-> d]

EmptyDict == [k \in {} |-> PyNone]

\* d[key] = val
DictPut(d, key, val) == [k \in DOMAIN d \cup {key} |-> IF k = key THEN val ELSE d[k]]

ParseFail == [ok |-> FALSE, val |-> PyNone, nxt |-> 0]

RECURSIVE ParseValue(_, _), ParseElems(_, _, _), ParseMembers(_, _, _)

\* one JSON value starting at token i
ParseValue(toks, i) ==
    IF i > Len(toks) THEN ParseFail
    ELSE CASE toks[i].t = "str" -> [ok |-> TRUE, val |-> PyStr(toks[i].v), nxt |-> i + 1]
           [] toks[i].t = "int" -> [ok |-> TRUE, val |-> PyInt, nxt |-> i + 1]
           [] toks[i].t = "null" -> [ok |-> TRUE, val |-> PyNone, nxt |-> i + 1]
           [] toks[i].t = "[" ->
                IF i + 1 <= Len(toks) /\ toks[i + 1].t = "]"
                THEN [ok |-> TRUE, val |-> PyList(<<>>), nxt |-> i + 2]
                ELSE ParseElems(toks, i + 1, <<>>)
           [] toks[i].t = "{" ->
                IF i + 1 <= Len(toks) /\ toks[i + 1].t = "}"
                THEN [ok |-> TRUE, val |-> PyDict(EmptyDict), nxt |-> i + 2]
                ELSE ParseMembers(toks, i + 1, EmptyDict)
           [] OTHER -> ParseFail

\* the elements of a list from token i on: value ("," value)* "]"
ParseElems(toks, i, acc) ==
    LET r == ParseValue(toks, i)
    IN  IF ~r.ok \/ r.nxt > Len(toks) THEN ParseFail
        ELSE IF toks[r.nxt].t = "]"
        THEN [ok |-> TRUE, val |-> PyList(Append(acc, r.val)), nxt |-> r.nxt + 1]
        ELSE IF toks[r.nxt].t = ","
        THEN ParseElems(toks, r.nxt + 1, Append(acc, r.val))
        ELSE ParseFail

\* the members of an object from token i on: str ":" value ("," ...)* "}"
ParseMembers(toks, i, acc) ==
    IF i + 1 > Len(toks) \/ toks[i].t # "str" \/ toks[i + 1].t # ":" THEN ParseFail
    ELSE LET r == ParseValue(toks, i + 2)
         IN  IF ~r.ok \/ r.nxt > Len(toks) THEN ParseFail
             ELSE IF toks[r.nxt].t = "}"
             THEN [ok |-> TRUE, val |-> PyDict(DictPut(acc, toks[i].v, r.val)),
                   nxt |-> r.nxt + 1]
             ELSE IF toks[r.nxt].t = ","
             THEN ParseMembers(toks, r.nxt + 1, DictPut(acc, toks[i].v, r.val))
             ELSE ParseFail

\* json.loads(text): the value, or ok = FALSE for JSONDecodeError
json_loads(toks) ==
    LET r == ParseValue(toks, 1)
    IN  IF r.ok /\ r.nxt = Len(toks) + 1 THEN [ok |-> TRUE, val |-> r.val]
        ELSE [ok |-> FALSE, val |-> PyNone]

\* re.match in place of re.search: the match has to start the text
re_match(toks) ==
    LET closes == { i \in 1..Len(toks) : toks[i].t = "}" }
    IN  IF toks = <<>> \/ toks[1].t # "{" \/ closes = {} THEN <<>>
        ELSE << SubSeq(toks, 1, CHOOSE i \in closes : \A j \in closes : i >= j) >>

\* re.search(r'\{.*\}', text, re.DOTALL): <<the match>>, or <<>> for None
re_search(toks) ==
    LET opens == { i \in 1..Len(toks) : toks[i].t = "{" }
        closes == { i \in 1..Len(toks) : toks[i].t = "}" }
    IN  IF opens = {} \/ closes = {} THEN <<>>
        ELSE LET first == CHOOSE i \in opens : \A j \in opens : i <= j
                 lst == CHOOSE i \in closes : \A j \in closes : i >= j
             IN  IF lst > first THEN << SubSeq(toks, first, lst) >> ELSE <<>>

\* s.strip()
strip(s) ==
    LET keep == { i \in 1..Len(s) : s[i] # " " }
    IN  IF keep = {} THEN <<>>
        ELSE SubSeq(s, CHOOSE i \in keep : \A j \in keep : i <= j,
                       CHOOSE i \in keep : \A j \in keep : i >= j)

\* isinstance(options, list) and all(isinstance(x, str) for x in options)
IsStrList(x) == x.t = "list" /\ \A i \in 1..Len(x.v) : x.v[i].t = "str"

Returned(scene, options) == [raised |-> "", scene |-> scene, options |-> options]
Raised(e) == [raised |-> e, scene |-> <<>>, options |-> <<>>]

\* scene_and_options emptying both fields as soon as one is wrongly typed
scene_and_options_all_or_nothing(data) ==
    IF data.t # "dict" THEN Raised("AttributeError")
    ELSE LET scene0 == Get(data.v, <<"scene">>, PyStr(<<>>))
             options0 == Get(data.v, <<"options">>, PyList(<<>>))
         IN  IF scene0.t # "str" \/ ~IsStrList(options0) THEN Returned(<<>>, <<>>)
             ELSE Returned(strip(scene0.v),
                           [i \in 1..Len(Take(options0.v, 2)) |-> strip(options0.v[i].v)])

\* scene_and_options without options[:2]
scene_and_options_untruncated(data) ==
    IF data.t # "dict" THEN Raised("AttributeError")
    ELSE LET scene0 == Get(data.v, <<"scene">>, PyStr(<<>>))
             options0 == Get(data.v, <<"options">>, PyList(<<>>))
             scene == IF scene0.t # "str" THEN <<>> ELSE scene0.v
             options == IF ~IsStrList(options0) THEN <<>>
                        ELSE [i \in 1..Len(options0.v) |-> options0.v[i].v]
         IN  Returned(strip(scene), [i \in 1..Len(options) |-> strip(options[i])])

\* lines 124-131: the fields of the parsed value
scene_and_options(data) ==
    IF data.t # "dict" THEN Raised("AttributeError")
    ELSE LET scene0 == Get(data.v, <<"scene">>, PyStr(<<>>))
             options0 == Get(data.v, <<"options">>, PyList(<<>>))
             scene == IF scene0.t # "str" THEN <<>> ELSE scene0.v
             options == IF ~IsStrList(options0) THEN <<>>
                        ELSE [i \in 1..Len(options0.v) |-> options0.v[i].v]
         IN  Returned(strip(scene), [i \in 1..Len(Take(options, 2)) |-> strip(options[i])])

\* lines 112-122: <<data>>, or <<>> where the function returns "", []
loaded(txt) ==
    LET whole == json_loads(txt)
    IN  IF whole.ok THEN <<whole.val>>
        ELSE LET m == re_search(txt)
             IN  IF m = <<>> THEN <<>>
                 ELSE LET part == json_loads(m[1])
                      IN  IF part.ok THEN <<part.val>> ELSE <<>>

\* parse_scene_and_options_json(text): what it returns, or the exception it raises
parse_scene_and_options_json(txt) ==
    IF loaded(txt) = <<>> THEN Returned(<<>>, <<>>)
    ELSE scene_and_options(loaded(txt)[1])

----------------------------------------------------------------------------
(* The replies the service may give *)

\* `"scene": v` for the values tried for the scene field; <<>> leaves it out
SceneFields ==
    { <<>>,
      <<TStr(<<"scene">>), COLON, TStr(<<"S">>)>>,
      <<TStr(<<"scene">>), COLON, TStr(<<" ", "S", " ">>)>>,
      <<TStr(<<"scene">>), COLON, INT>> }

\* the text of a list of values
RECURSIVE ListText(_)
ListText(l) ==
    IF l = <<>> THEN <<>>
    ELSE IF Len(l) = 1 THEN <<l[1]>>
    ELSE <<l[1], COMMA>> \o ListText(Tail(l))

LabelLists == SeqsOf({TStr(<<"A">>), TStr(<<" ", "B", " ">>)}, 0, MaxLabels)

\* `"options": v` for the values tried for the options field
OptionsFields ==
    { <<>> }
    \cup { <<TStr(<<"options">>), COLON, LS>> \o ListText(l) \o <<RS>> : l \in LabelLists }
    \cup { <<TStr(<<"options">>), COLON>> \o v :
             v \in { <<TStr(<<"A">>)>>, <<INT>>, <<LS, TStr(<<"A">>), COMMA, INT, RS>>,
                     <<LS, INT, COMMA, TStr(<<"A">>), RS>> } }

ObjectTexts ==
    { <<LB>> \o s \o (IF s # <<>> /\ o # <<>> THEN <<COMMA>> ELSE <<>>) \o o \o <<RB>> :
        s \in SceneFields, o \in OptionsFields }

\* well-formed JSON that is not an object
OtherJsonTexts ==
    { <<INT>>, <<NULL>>, <<TStr(<<"S">>)>>, <<LS, RS>>,
      <<LS, TStr(<<"A">>), COMMA, TStr(<<"B">>), RS>> }

Prefixes == { <<>>, <<NOISE>>, <<LB, NOISE>> }
Suffixes == { <<>>, <<NOISE>>, <<NOISE, RB>> }

\* ai_bridge_json's possible return values
RawOutputs ==
    { p \o j \o q : p \in Prefixes, j \in ObjectTexts \cup OtherJsonTexts, q \in Suffixes }
    \cup { <<>>, <<NOISE>>, <<RB, NOISE, LB>>, <<LB, NOISE, RB>>, <<LB>> }

\* what the parser makes of them
ParseOutcomes == { parse_scene_and_options_json(out) : out \in RawOutputs }

----------------------------------------------------------------------------
(* show_node: the synchronous part *)

Button(t) == [packed |-> FALSE, text |-> t, command |-> <<>>]

\* pack_forget that leaves the button where it is
pack_forget_noop(btn) == btn

\* btn.pack_forget()
pack_forget(btn) == [btn EXCEPT !.packed = FALSE]

\* set_buttons(opts), first button
set_buttons1(opts) ==
    IF Len(opts) >= 1
    THEN [packed |-> TRUE, text |-> opts[1]["label"], command |-> <<opts[1]>>]
    ELSE pack_forget(btn1)

\* set_buttons2 wiring the last option, opts[-1], instead of opts[1]
set_buttons2_last(opts) ==
    IF Len(opts) >= 2
    THEN [packed |-> TRUE, text |-> opts[Len(opts)]["label"], command |-> <<opts[Len(opts)]>>]
    ELSE pack_forget(btn2)

\* set_buttons(opts), second button
set_buttons2(opts) ==
    IF Len(opts) >= 2
    THEN [packed |-> TRUE, text |-> opts[2]["label"], command |-> <<opts[2]>>]
    ELSE pack_forget(btn2)

\* resolve_kind with the hint looked at before the options
resolve_kind_hint_first(node) ==
    IF Get(node, "next_hint", <<>>) # <<>> THEN "pending"
    ELSE IF Get(node, "options", <<>>) # <<>> THEN "authored"
    ELSE "terminal"

\* resolve_kind testing the presence of next_hint instead of its truth value
resolve_kind_hint_present(node) ==
    IF Get(node, "options", <<>>) # <<>> THEN "authored"
    ELSE IF ~Has(node, "next_hint") THEN "terminal"
    ELSE "pending"

\* lines 163-175: which of its three paths show_node takes for the node
resolve_kind(node) ==
    IF Get(node, "options", <<>>) # <<>> THEN "authored"
    ELSE IF Get(node, "next_hint", <<>>) = <<>> THEN "terminal"
    ELSE "pending"

Generating == <<"\n\n(Generating...)">>

\* start_thread that starts nothing when a thread was started for the node before
start_thread_once(node_id) ==
    IF \E i \in 1..Len(threads) : threads[i].node_id = node_id THEN threads
    ELSE Append(threads, [node_id |-> node_id, alive |-> TRUE, completions |-> 0])

\* threading.Thread(target=work, daemon=True).start()
start_thread(node_id) ==
    Append(threads, [node_id |-> node_id, alive |-> TRUE, completions |-> 0])

\* show_node(node_id, ...) on the graph st, for a node_id that is a key of st
show_node(st, node_id) ==
    LET node == st[node_id]
        opts == Get(node, "options", <<>>)
    IN  /\ status' = node_id
        /\ IF resolve_kind(node) = "authored"
           THEN /\ box' = node["text"]
                /\ btn1' = set_buttons1(opts)
                /\ btn2' = set_buttons2(opts)
                /\ UNCHANGED threads
           ELSE IF resolve_kind(node) = "terminal"
           THEN /\ box' = node["text"]
                /\ btn1' = set_buttons1(<<>>)
                /\ btn2' = set_buttons2(<<>>)
                /\ UNCHANGED threads
           ELSE /\ box' = node["text"] \o Generating
                /\ btn1' = pack_forget(btn1)
                /\ btn2' = pack_forget(btn2)
                /\ threads' = start_thread(node_id)

----------------------------------------------------------------------------
(* show_node.work: the worker thread, and the callbacks it posts *)

\* lines 186-191: which routing branch the node takes
branch(node) ==
    IF Has(node, "next_map") /\ node["next_map"] # <<>> THEN "next_map"
    ELSE IF Has(node, "next") THEN "next"
    ELSE "self"

\* targets with `next` tried before `next_map`
targets_next_first(node, node_id, ai_opts) ==
    IF Has(node, "next") THEN [i \in 1..Max(1, Len(ai_opts)) |-> node["next"]]
    ELSE IF Has(node, "next_map") /\ node["next_map"] # <<>> THEN node["next_map"]
    ELSE [i \in 1..Max(1, Len(ai_opts)) |-> node_id]

\* targets with [node["next"]] not repeated for every label
targets_next_once(node, node_id, ai_opts) ==
    IF branch(node) = "next_map" THEN node["next_map"]
    ELSE IF branch(node) = "next" THEN << node["next"] >>
    ELSE [i \in 1..Max(1, Len(ai_opts)) |-> node_id]

\* lines 186-191: the targets of the generated options
targets(node, node_id, ai_opts) ==
    IF branch(node) = "next_map" THEN node["next_map"]
    ELSE IF branch(node) = "next"
    THEN [i \in 1..Max(1, Len(ai_opts)) |-> node["next"]]
    ELSE [i \in 1..Max(1, Len(ai_opts)) |-> node_id]

\* lines 193-196: the options from index idx on that have a target in the story
RECURSIVE mapped_from(_, _, _, _)
mapped_from(st, ai_opts, tg, idx) ==
    IF idx > Len(ai_opts) THEN <<>>
    ELSE (IF idx <= Len(tg) /\ tg[idx] \in DOMAIN st
          THEN << MkOpt(ai_opts[idx], <<tg[idx]>>) >>
          ELSE <<>>) \o mapped_from(st, ai_opts, tg, idx + 1)

\* the callback posted with box.after(0, ...)
Callback(kind, node_id, scene, ai_opts, mapped, msg, bridge_ok, br) ==
    [kind |-> kind, node_id |-> node_id, scene |-> scene, ai_opts |-> ai_opts,
     mapped |-> mapped, msg |-> msg, bridge_ok |-> bridge_ok, branch |-> br,
     req |-> 0]

\* the callback cb as posted by thread i (req: history)
PostedBy(i, cb) == [cb EXCEPT !.req = i]

\* the main loop has run the callback cb
Completed(cb) == [threads EXCEPT ![cb.req].completions = @ + 1]

NoCallback == Callback("none", "", <<>>, <<>>, <<>>, "", FALSE, "")

\* a step: the operation, the node it is about, the callback it posts or runs
Step(op, node_id, cb) == [op |-> op, node_id |-> node_id, cb |-> cb]

\* work() of the thread started for node_id, when ai_bridge_json raises
work_bridge_error(node_id) ==
    Callback("error", node_id, <<>>, <<>>, <<>>, "bridge", FALSE, "")

\* work() of the thread started for node_id, when ai_bridge_json returns and
\* parse_scene_and_options_json ends with outcome p
work(st, node_id, p) ==
    IF p.raised # ""
    THEN Callback("error", node_id, <<>>, <<>>, <<>>, p.raised, TRUE, "")
    ELSE Callback("update", node_id, p.scene, p.options,
                  mapped_from(st, p.options, targets(st[node_id], node_id, p.options), 1),
                  "", TRUE, branch(st[node_id]))

\* update(): the text it renders
update_text(node, cb) ==
    LET debug_lines ==
            (IF cb.ai_opts = <<>> THEN <<"\n\n[Debug] No options parsed from model output.">>
             ELSE <<>>)
            \o (IF Has(node, "next_map") /\ node["next_map"] = <<>>
                THEN <<"[Debug] Node has empty next_map.">> ELSE <<>>)
            \o (IF ~Has(node, "next") /\ ~Has(node, "next_map")
                THEN <<"[Debug] Node has no next/next_map; using loopback.">> ELSE <<>>)
        RECURSIVE joined(_)
        joined(ds) == IF ds = <<>> THEN <<>> ELSE <<"\n", Head(ds)>> \o joined(Tail(ds))
    IN  node["text"] \o <<"\n\n">> \o cb.scene \o joined(debug_lines)

\* update(): the options it hands to set_buttons
update_opts(cb) ==
    IF cb.mapped # <<>> THEN Take(cb.mapped, 2)
    ELSE IF cb.ai_opts # <<>>
    THEN << MkOpt(cb.ai_opts[1], <<cb.node_id>>) >>
         \o (IF Len(cb.ai_opts) > 1 THEN << MkOpt(cb.ai_opts[2], <<cb.node_id>>) >> ELSE <<>>)
    ELSE << MkOpt(<<"Continue">>, <<cb.node_id>>) >>

----------------------------------------------------------------------------
(* Initial state: the program has been started, build_ui has not run yet *)

NotCalled == Raised("not called")

Init ==
    /\ source \in Sources
    /\ story = NoStory
    /\ pc = "build_ui"
    /\ status = ""
    /\ box = <<>>
    /\ btn1 = Button(<<"Option 1">>)
    /\ btn2 = Button(<<"Option 2">>)
    /\ threads = <<>>
    /\ after_queue = <<>>
    /\ messagebox = <<>>
    /\ exc = "none"
    /\ last = Step("init", "", NoCallback)
    /\ text = <<>>
    /\ parsed = NotCalled

----------------------------------------------------------------------------
(* Actions *)

\* build_ui(): load the story, resolve "start", enter the main loop
BuildUI ==
    /\ pc = "build_ui"
    /\ LET r == load_story(source)
       IN  IF ~r.ok
           THEN /\ messagebox' = Append(messagebox, [title |-> "Story Load Error", msg |-> r.error])
                /\ pc' = "exit"
                /\ exc' = "SystemExit"
                /\ last' = Step("load_failed", "", NoCallback)
                /\ UNCHANGED <<story, status, box, btn1, btn2, threads>>
           ELSE /\ story' = r.story
                /\ UNCHANGED messagebox
                /\ IF "start" \in DOMAIN r.story
                   THEN /\ show_node(r.story, "start")
                        /\ pc' = "mainloop"
                        /\ last' = Step("show_node", "start", NoCallback)
                        /\ UNCHANGED exc
                   ELSE /\ pc' = "crashed"
                        /\ exc' = "KeyError"
                        /\ last' = Step("KeyError", "start", NoCallback)
                        /\ UNCHANGED <<status, box, btn1, btn2, threads>>
    /\ UNCHANGED <<source, after_queue, text, parsed>>

\* the user presses a packed button: its command runs show_node(opt["next"], ...)
Click(btn) ==
    /\ pc = "mainloop"
    /\ btn.packed
    /\ btn.command # <<>>
    /\ LET opt == btn.command[1]
       IN  IF Has(opt, "next") /\ opt["next"] \in DOMAIN story
           THEN /\ resolve_kind(story[opt["next"]]) = "pending" => Len(threads) < MaxReq
                /\ show_node(story, opt["next"])
                /\ last' = Step("show_node", opt["next"], NoCallback)
                /\ UNCHANGED exc
           ELSE /\ exc' = "KeyError"
                /\ last' = Step("KeyError", Get(opt, "next", None), NoCallback)
                /\ UNCHANGED <<status, box, btn1, btn2, threads>>
    /\ UNCHANGED <<source, story, pc, after_queue, messagebox, text, parsed>>

Click1 == Click(btn1)
Click2 == Click(btn2)

\* WorkBridgeError with the exception swallowed: nothing is posted
WorkBridgeError_silent ==
    \E i \in 1..Len(threads) :
        /\ threads[i].alive
        /\ threads' = [threads EXCEPT ![i].alive = FALSE]
        /\ last' = Step("work", threads[i].node_id, NoCallback)
        /\ UNCHANGED <<source, story, pc, status, box, btn1, btn2, after_queue, messagebox,
                       exc, text, parsed>>

\* a worker thread runs work() to its end; ai_bridge_json raises ...
WorkBridgeError ==
    \E i \in 1..Len(threads) :
        /\ threads[i].alive
        /\ threads' = [threads EXCEPT ![i].alive = FALSE]
        /\ after_queue' =
              Append(after_queue, PostedBy(i, work_bridge_error(threads[i].node_id)))
        /\ last' = Step("work", threads[i].node_id,
                        PostedBy(i, work_bridge_error(threads[i].node_id)))
        /\ UNCHANGED <<source, story, pc, status, box, btn1, btn2, messagebox, exc,
                       text, parsed>>

\* Work with update() called in the thread instead of box.after(0, update)
Work_updates_directly ==
    \E i \in 1..Len(threads), p \in ParseOutcomes :
        LET cb == PostedBy(i, work(story, threads[i].node_id, p))
        IN  /\ threads[i].alive
            /\ threads' = [threads EXCEPT ![i].alive = FALSE]
            /\ IF cb.kind = "update"
               THEN /\ box' = update_text(story[cb.node_id], cb)
                    /\ btn1' = set_buttons1(update_opts(cb))
                    /\ btn2' = set_buttons2(update_opts(cb))
                    /\ UNCHANGED after_queue
               ELSE /\ after_queue' = Append(after_queue, cb)
                    /\ UNCHANGED <<box, btn1, btn2>>
            /\ last' = Step("work", threads[i].node_id, cb)
            /\ UNCHANGED <<source, story, pc, status, messagebox, exc, text, parsed>>

\* ... or returns one of the replies
Work ==
    \E i \in 1..Len(threads), p \in ParseOutcomes :
        /\ threads[i].alive
        /\ threads' = [threads EXCEPT ![i].alive = FALSE]
        /\ after_queue' =
              Append(after_queue, PostedBy(i, work(story, threads[i].node_id, p)))
        /\ last' = Step("work", threads[i].node_id,
                        PostedBy(i, work(story, threads[i].node_id, p)))
        /\ UNCHANGED <<source, story, pc, status, box, btn1, btn2, messagebox, exc,
                       text, parsed>>

\* the main loop runs update()
Update ==
    /\ pc = "mainloop"
    /\ after_queue # <<>>
    /\ LET cb == Head(after_queue)
       IN  /\ cb.kind = "update"
           /\ box' = update_text(story[cb.node_id], cb)
           /\ btn1' = set_buttons1(update_opts(cb))
           /\ btn2' = set_buttons2(update_opts(cb))
           /\ last' = Step("update", cb.node_id, cb)
           /\ threads' = Completed(cb)
    /\ after_queue' = Tail(after_queue)
    /\ UNCHANGED <<source, story, pc, status, messagebox, exc, text, parsed>>

\* ShowError that also puts the node's text back
ShowError_restores_text ==
    /\ pc = "mainloop"
    /\ after_queue # <<>>
    /\ LET cb == Head(after_queue)
       IN  /\ cb.kind = "error"
           /\ messagebox' = Append(messagebox, [title |-> "AI Error", msg |-> cb.msg])
           /\ box' = story[cb.node_id]["text"]
           /\ last' = Step("error", cb.node_id, cb)
           /\ threads' = Completed(cb)
    /\ after_queue' = Tail(after_queue)
    /\ UNCHANGED <<source, story, pc, status, btn1, btn2, exc, text, parsed>>

\* the main loop runs the lambda that shows the error dialog
ShowError ==
    /\ pc = "mainloop"
    /\ after_queue # <<>>
    /\ LET cb == Head(after_queue)
       IN  /\ cb.kind = "error"
           /\ messagebox' = Append(messagebox, [title |-> "AI Error", msg |-> cb.msg])
           /\ last' = Step("error", cb.node_id, cb)
           /\ threads' = Completed(cb)
    /\ after_queue' = Tail(after_queue)
    /\ UNCHANGED <<source, story, pc, status, box, btn1, btn2, exc, text, parsed>>

Next == BuildUI \/ Click1 \/ Click2 \/ WorkBridgeError \/ Work \/ Update \/ ShowError

Spec == Init /\ [][Next]_vars

\* The worker threads run (the call of the service returns or raises within
\* its timeout of 30 s) and the main loop runs the callbacks posted to it.
FairSpec ==
    /\ Spec
    /\ WF_vars(Work \/ WorkBridgeError)
    /\ WF_vars(Update \/ ShowError)

----------------------------------------------------------------------------
(* The parser on its own: one call on each reply *)

InitParse ==
    /\ source = [kind |-> "missing", story |-> NoStory]
    /\ story = NoStory
    /\ pc = "parse"
    /\ status = ""
    /\ box = <<>>
    /\ btn1 = Button(<<"Option 1">>)
    /\ btn2 = Button(<<"Option 2">>)
    /\ threads = <<>>
    /\ after_queue = <<>>
    /\ messagebox = <<>>
    /\ exc = "none"
    /\ last = Step("init", "", NoCallback)
    /\ text \in RawOutputs
    /\ parsed = NotCalled

Parse ==
    /\ pc = "parse"
    /\ parsed = NotCalled
    /\ parsed' = parse_scene_and_options_json(text)
    /\ UNCHANGED <<source, story, pc, status, box, btn1, btn2, threads, after_queue,
                   messagebox, exc, last, text>>

NextParse == Parse

SpecParse == InitParse /\ [][NextParse]_vars

TypeOK == pc \in {"build_ui", "mainloop", "exit", "crashed", "parse"}

----------------------------------------------------------------------------
(* What the claims speak of *)

\* the story has been accepted by load_story
Accepted == pc \in {"mainloop", "crashed"}

\* the choices wired to interaction, in order: label and command of each
\* packed button
Shown ==
    (IF btn1.packed THEN << <<btn1.text, btn1.command>> >> ELSE <<>>)
    \o (IF btn2.packed THEN << <<btn2.text, btn2.command>> >> ELSE <<>>)

\* the choices that present the options opts, in order
ChoicesOf(opts) == [i \in 1..Len(opts) |-> <<opts[i]["label"], <<opts[i]>> >>]

\* the choice with this label that leads to this node
Choice(label, nxt) == <<label, << MkOpt(label, <<nxt>>) >> >>

\* the node resolved, or whose callback ran, in the last step
LastNode == story[last.node_id]

OptionsOf(node) == Get(node, "options", <<>>)
HintOf(node) == Get(node, "next_hint", <<>>)
NextMapOf(node) == Get(node, "next_map", <<>>)

\* no generation request is started by the step
NoRequestStarted == threads' = threads /\ after_queue' = after_queue

----------------------------------------------------------------------------
(* C1 *)

RefsAreKeys(st) ==
    \A id \in DOMAIN st :
        /\ \A i \in 1..Len(OptionsOf(st[id])) :
               /\ Has(OptionsOf(st[id])[i], "next")
               /\ OptionsOf(st[id])[i]["next"] \in DOMAIN st
        /\ Has(st[id], "next") => st[id]["next"] \in DOMAIN st
        /\ \A i \in 1..Len(NextMapOf(st[id])) : NextMapOf(st[id])[i] \in DOMAIN st

\* C1: in every graph accepted by load_story, every authored option has a
\* `next` that is a key of the graph, every node's `next` (if present) is a
\* key, and every `next_map` entry is a key.
C1_AcceptedRefsAreKeys == Accepted => RefsAreKeys(story)

----------------------------------------------------------------------------
(* C2 *)

\* C2 as stated: a step that resolves a node with non-empty options shows the
\* node's text and exactly the authored options, in order, and starts no
\* generation request.
C2_AllOptionsShown ==
    [][(last'.op = "show_node" /\ OptionsOf(LastNode') # <<>>)
        => /\ box' = LastNode'["text"]
           /\ Shown' = ChoicesOf(OptionsOf(LastNode'))
           /\ NoRequestStarted]_vars

\* C2 amended: a step that resolves a node with non-empty options shows the
\* node's text and the first two (at most) authored options, in order, and
\* starts no generation request, whatever next_hint, next and next_map are.
C2_Precedence ==
    [][(last'.op = "show_node" /\ OptionsOf(LastNode') # <<>>)
        => /\ box' = LastNode'["text"]
           /\ Shown' = ChoicesOf(Take(OptionsOf(LastNode'), 2))
           /\ NoRequestStarted]_vars

\* a node with three options, a hint, a next and a next_map has been resolved
C2_Witness ==
    /\ last.op = "show_node"
    /\ Len(OptionsOf(LastNode)) = 3
    /\ HintOf(LastNode) # <<>>
    /\ Has(LastNode, "next")
    /\ NextMapOf(LastNode) # <<>>
    /\ Len(Shown) = 2

----------------------------------------------------------------------------
(* C3 *)

\* C3: a step that resolves a node whose options are absent or empty and
\* whose next_hint is absent or empty shows the node's text and no choice,
\* and starts no generation request.
C3_Terminal ==
    [][(last'.op = "show_node" /\ OptionsOf(LastNode') = <<>> /\ HintOf(LastNode') = <<>>)
        => /\ box' = LastNode'["text"]
           /\ Shown' = <<>>
           /\ NoRequestStarted]_vars

\* a node with an empty options list and an empty hint has been resolved
C3_Witness ==
    /\ last.op = "show_node"
    /\ Has(LastNode, "options") /\ LastNode["options"] = <<>>
    /\ Has(LastNode, "next_hint") /\ LastNode["next_hint"] = <<>>
    /\ Shown = <<>>
----------------------------------------------------------------------------
(* C4 *)

\* the labels the generation produced, for the callback of the last step
L == last.cb.ai_opts

\* the callback update() has just run for a node without options
Updated == last.op = "update" /\ OptionsOf(LastNode) = <<>>

RoutedByMap ==
    [i \in 1..Min(Len(L), Len(NextMapOf(LastNode))) |-> Choice(L[i], NextMapOf(LastNode)[i])]

\* C4 as stated: after a successful generation with labels L for a node whose
\* next_map is a non-empty list, the choices shown are exactly the pairs
\* (L[i], next_map[i]) for i < min(len(L), len(next_map)), in order.
C4_RoutedByNextMapAnyL ==
    (Updated /\ NextMapOf(LastNode) # <<>>) => Shown = RoutedByMap

\* C4 amended: the same for a non-empty L, whether or not `next` is set too.
C4_RoutedByNextMap ==
    (Updated /\ NextMapOf(LastNode) # <<>> /\ L # <<>>) => Shown = RoutedByMap

\* two labels came for a node with a next_map of length one and another `next`
C4_Witness ==
    /\ Updated
    /\ Len(NextMapOf(LastNode)) = 1
    /\ Has(LastNode, "next") /\ LastNode["next"] # NextMapOf(LastNode)[1]
    /\ Len(L) = 2
    /\ Len(Shown) = 1

----------------------------------------------------------------------------
(* C5 *)

\* C5: after a successful generation with 1 or 2 labels for a node with no (or
\* an empty) next_map and `next` = z, every label is shown as a choice, in
\* order, and every choice leads to z.
C5_RoutedByNext ==
    (Updated /\ NextMapOf(LastNode) = <<>> /\ Has(LastNode, "next") /\ Len(L) \in 1..2)
        => Shown = [i \in 1..Len(L) |-> Choice(L[i], LastNode["next"])]

\* two labels came for a node with an empty next_map and a `next`
C5_Witness ==
    /\ Updated
    /\ Has(LastNode, "next_map") /\ LastNode["next_map"] = <<>>
    /\ Has(LastNode, "next")
    /\ Len(L) = 2
    /\ Len(Shown) = 2

----------------------------------------------------------------------------
(* C6 *)

\* C6: whenever a generation completes without a bridge error, some choice is
\* shown; when no generated option was routed, what is shown is the raw labels
\* leading to the current node or, without labels, one "Continue" choice
\* leading to the current node.
C6_ForwardProgress ==
    (last.op \in {"update", "error"} /\ last.cb.bridge_ok)
        => /\ Shown # <<>>
           /\ last.cb.mapped = <<>>
                => Shown = IF L = <<>> THEN << Choice(<<"Continue">>, last.node_id) >>
                           ELSE [i \in 1..Len(L) |-> Choice(L[i], last.node_id)]

----------------------------------------------------------------------------
(* C7 *)

\* no options, a hint, and neither a non-empty next_map nor a next
Unroutable(node) ==
    /\ OptionsOf(node) = <<>>
    /\ HintOf(node) # <<>>
    /\ NextMapOf(node) = <<>>
    /\ ~Has(node, "next")

\* C7: load_story rejects every graph with an unroutable hinted node, and no
\* worker ever takes the self-loop branch of the routing policy.
C7_NoSelfLoopBranch ==
    /\ (pc # "build_ui" /\ source.kind = "object"
            /\ \E id \in DOMAIN source.story : Unroutable(source.story[id]))
          => pc = "exit"
    /\ last.cb.branch # "self"
    /\ \A i \in 1..Len(after_queue) : after_queue[i].branch # "self"

\* a story whose only defect is an unroutable "start" has been rejected
C7_Witness ==
    /\ pc = "exit"
    /\ source.kind = "object"
    /\ DOMAIN source.story = {"start"}
    /\ Unroutable(source.story["start"])
    /\ ~Has(source.story["start"], "next_map")
    /\ messagebox = << [title |-> "Story Load Error", msg |-> "no_route"] >>

----------------------------------------------------------------------------
(* C8 *)

\* C8: parse_scene_and_options_json never raises, whatever the reply is.
C8_ParseNeverRaises == parsed # NotCalled => parsed.raised = ""

----------------------------------------------------------------------------
(* C9 *)

\* the call has returned for a reply holding an object
ParsedObject ==
    /\ parsed # NotCalled
    /\ parsed.raised = ""
    /\ loaded(text) # <<>>
    /\ loaded(text)[1].t = "dict"

SceneField == Get(loaded(text)[1].v, <<"scene">>, PyStr(<<>>))
OptionsField == Get(loaded(text)[1].v, <<"options">>, PyList(<<>>))

\* C9 as stated: if the scene field is not a string or the options field is
\* not a list of strings, both the scene and the label list returned are empty.
C9_BothEmptied ==
    (ParsedObject /\ (SceneField.t # "str" \/ ~IsStrList(OptionsField)))
        => parsed.scene = <<>> /\ parsed.options = <<>>

\* C9 amended: each field falls back alone: a scene that is not a string gives
\* an empty scene and keeps the valid labels (the first two, trimmed); options
\* that are not a list of strings give no labels and keep the valid scene
\* (trimmed).
C9_EachFieldAlone ==
    ParsedObject
        => /\ SceneField.t # "str" => parsed.scene = <<>>
           /\ ~IsStrList(OptionsField) => parsed.options = <<>>
           /\ (SceneField.t # "str" /\ IsStrList(OptionsField))
                => parsed.options =
                     [i \in 1..Min(2, Len(OptionsField.v)) |-> strip(OptionsField.v[i].v)]
           /\ (~IsStrList(OptionsField) /\ SceneField.t = "str")
                => parsed.scene = strip(SceneField.v)

\* a reply with a number for scene and two labels kept its labels
C9_Witness ==
    /\ ParsedObject
    /\ SceneField.t = "int"
    /\ IsStrList(OptionsField)
    /\ Len(parsed.options) = 2

----------------------------------------------------------------------------
(* C10 *)

\* C10: the step that handles a generation failure leaves the text, the two
\* buttons and the status as they were, and shows exactly one more error dialog.
C10_FailureKeepsDisplay ==
    [][last'.op = "error"
        => /\ box' = box
           /\ btn1' = btn1
           /\ btn2' = btn2
           /\ status' = status
           /\ Len(messagebox') = Len(messagebox) + 1]_vars

\* a bridge failure has been handled while the node's "Generating" text shows
C10_Witness ==
    /\ last.op = "error"
    /\ last.cb.msg = "bridge"
    /\ box = LastNode["text"] \o Generating
    /\ Shown = <<>>
    /\ Len(messagebox) = 1
----------------------------------------------------------------------------
(* C11 *)

\* a packed button whose command resolves the node id
CanNavigateTo(id) ==
    \E btn \in {btn1, btn2} :
        /\ btn.packed
        /\ btn.command # <<>>
        /\ Has(btn.command[1], "next")
        /\ btn.command[1]["next"] = id

\* C11: once the resolution of a hinted node has ended in Failed, the user
\* has an enabled action that resolves that node again.
C11_FailureRecoverable == last.op = "error" => CanNavigateTo(last.node_id)

----------------------------------------------------------------------------
(* C12 *)

\* r is s without its leading and trailing whitespace
IsTrimOf(r, s) ==
    /\ r = <<>> \/ (r[1] # " " /\ r[Len(r)] # " ")
    /\ \E a, b \in 0..Len(s) :
          /\ a + Len(r) + b = Len(s)
          /\ \A i \in 1..Len(s) :
                IF i <= a \/ i > a + Len(r) THEN s[i] = " " ELSE s[i] = r[i - a]

\* C12: the labels returned are at most 2; for a parsed list of n label
\* strings they are its first min(2, n) entries, in order, each trimmed.
C12_FirstTwoLabels ==
    /\ parsed # NotCalled => Len(parsed.options) <= 2
    /\ (ParsedObject /\ IsStrList(OptionsField))
          => /\ Len(parsed.options) = Min(2, Len(OptionsField.v))
             /\ \A i \in 1..Len(parsed.options) :
                   IsTrimOf(parsed.options[i], OptionsField.v[i].v)

\* a list of three labels gave its first two, the second one trimmed
C12_Witness ==
    /\ ParsedObject
    /\ IsStrList(OptionsField)
    /\ Len(OptionsField.v) = 3
    /\ OptionsField.v[1].v # OptionsField.v[2].v
    /\ parsed.options = << <<"A">>, <<"B">> >>

----------------------------------------------------------------------------
(* C13 *)

\* the reply is an object literal from i to j with noise, free of braces,
\* around it
NoiseAround(i, j) ==
    /\ 1 <= i /\ i <= j /\ j <= Len(text)
    /\ i > 1 \/ j < Len(text)
    /\ SubSeq(text, i, j) \in ObjectTexts
    /\ \A k \in 1..Len(text) : (k < i \/ k > j) => text[k] = NOISE

\* no substring of the reply from a "{" to a "}" is well-formed
NothingParses ==
    \A i, j \in 1..Len(text) :
        (i < j /\ text[i] = LB /\ text[j] = RB) => ~json_loads(SubSeq(text, i, j)).ok

----------------------------------------------------------------------------
(* C14 *)

\* the presented state: text, choices, current node
Presented == <<box, btn1, btn2, status>>

\* C14: a step of a worker thread leaves the presented state as it is; the
\* presented state changes only in show_node and in update(), each one step
\* of the main loop.
C14_ForegroundOnly ==
    [][/\ last'.op = "work" => Presented' = Presented
       /\ Presented' # Presented => last'.op \in {"show_node", "update"}]_vars

\* a worker has posted its update and the display still shows "Generating"
C14_Witness ==
    /\ last.op = "work"
    /\ last.cb.kind = "update"
    /\ after_queue = << last.cb >>
    /\ box = LastNode["text"] \o Generating
    /\ Shown = <<>>

----------------------------------------------------------------------------
(* C15 *)

\* C15: a step that resolves a hinted node shows "Generating", hides the
\* choices and starts exactly one request; no request ever has more than one
\* completion run by the main loop, none while it is still running; and every
\* request started eventually has exactly one.
C15_RequestLifecycle ==
    /\ [][(last'.op = "show_node" /\ OptionsOf(LastNode') = <<>> /\ HintOf(LastNode') # <<>>)
            => /\ box' = LastNode'["text"] \o Generating
               /\ Shown' = <<>>
               /\ threads' = Append(threads, [node_id |-> last'.node_id, alive |-> TRUE,
                                               completions |-> 0])]_vars
    /\ [](\A i \in 1..Len(threads) :
            /\ threads[i].completions <= 1
            /\ threads[i].alive => threads[i].completions = 0)
    /\ \A i \in 1..MaxReq :
          (Len(threads) >= i) ~> (Len(threads) >= i /\ threads[i].completions = 1)

\* a second request has been started and has had its one completion
C15_Witness ==
    /\ Len(threads) = 2
    /\ threads[1].completions = 1
    /\ threads[2].completions = 1
    /\ ~threads[2].alive
    /\ last.op \in {"update", "error"}
----------------------------------------------------------------------------
(* C16 *)

\* C16: the current node is always a key of the loaded graph: no resolution,
\* the first one of "start" included, looks up an identifier that is absent.
C16_CurrentNodeIsKey ==
    Accepted => /\ exc # "KeyError"
                /\ status \in DOMAIN story

----------------------------------------------------------------------------
(* C17 *)

\* the choices update() hands to set_buttons for the callback of the last
\* step: the routed ones or, without any, the fallback to the node itself
Routed ==
    IF last.cb.mapped # <<>> THEN last.cb.mapped
    ELSE IF L # <<>> THEN [i \in 1..Len(L) |-> MkOpt(L[i], <<last.node_id>>)]
    ELSE << MkOpt(<<"Continue">>, <<last.node_id>>) >>

\* C17: at most two choices are ever wired; an authored node with more than
\* two options has exactly its first two wired, in order, and a generated
\* outcome exactly its first (at most two) routed choices, in order.
C17_AtMostTwoWired ==
    /\ Len(Shown) <= 2
    /\ (last.op = "show_node" /\ Len(OptionsOf(LastNode)) > 2)
          => Shown = ChoicesOf(SubSeq(OptionsOf(LastNode), 1, 2))
    /\ last.op = "update" => Shown = ChoicesOf(Take(Routed, 2))

\* three options, the last two different, have been resolved to two buttons
C17_Witness ==
    /\ last.op = "show_node"
    /\ Len(OptionsOf(LastNode)) = 3
    /\ OptionsOf(LastNode)[2] # OptionsOf(LastNode)[3]
    /\ btn1.packed /\ btn2.packed

----------------------------------------------------------------------------
(* C18 *)

\* the requests started whose completion the main loop has not run yet
InFlight == { i \in 1..Len(threads) : threads[i].completions = 0 }

\* C18 as stated: while a request is pending the user can navigate (away and
\* back, which starts a second request beside the first).
C18_CanNavigateWhilePending == InFlight # {} => (btn1.packed \/ btn2.packed)

\* C18 amended: every resolution of a hinted node, a return to a node resolved
\* before included, starts its own request; but two requests are never in
\* flight at the same time.
C18_NoDedupNoOverlap ==
    /\ [][(last'.op = "show_node" /\ OptionsOf(LastNode') = <<>> /\ HintOf(LastNode') # <<>>)
            => Len(threads') = Len(threads) + 1]_vars
    /\ [](Cardinality(InFlight) <= 1)

\* the node of a completed request has been resolved again: a second request
C18_Witness ==
    /\ Len(threads) = 2
    /\ threads[1].node_id = threads[2].node_id
    /\ threads[1].completions = 1
    /\ threads[2].alive

----------------------------------------------------------------------------
(* C19 *)

\* C19: from the start of a request until its completion has run no choice is
\* wired and the current node stays the node of the request; so a completion
\* always runs while its node is the current one.
C19_NoStaleCompletion ==
    /\ InFlight # {} => Shown = <<>>
    /\ \A i \in InFlight : threads[i].node_id = status
    /\ \A i \in 1..Len(after_queue) : after_queue[i].node_id = status
    /\ last.op \in {"update", "error"} => last.cb.node_id = status

\* after a navigation from "start" the completion of a request for "b" has run
C19_Witness ==
    /\ last.op = "update"
    /\ Len(threads) = 2
    /\ threads[1].node_id = "start"
    /\ threads[2].node_id = "b"
    /\ threads[2].completions = 1
    /\ status = "b"
====
